---- MODULE Spec2Model ----
(***************************************************************************)
(* Model of the persistent memory engine (src/src/tools/memory-engine.ts,  *)
(* class MemoryEngine) with its three collaborators: the durable record    *)
(* store `db`, the TTL cache `kv` and the embedding model `ai`.            *)
(*                                                                         *)
(* Text is a sequence of one-character strings, so that lower-casing,      *)
(* trimming and cleaning are computed rather than assumed.  Ids and        *)
(* session ids are tuples: <<"x">> is an id chosen by the caller,          *)
(* <<"mem", n>> the n-th id made by generateId, <<>> stands for "no id".   *)
(* An optional argument that the caller omits is a field missing from the  *)
(* argument record.                                                        *)
(***************************************************************************)
EXTENDS Integers, Sequences, FiniteSets, TLC

VARIABLES
    db,          \* rows of table `memories`
    schema,      \* TRUE once CREATE TABLE IF NOT EXISTS has run
    kv,          \* cache: key -> JSON text, for the keys present
    now,         \* the clock read by new Date() / Date.now()
    genCount,    \* how many ids generateId has handed out
    nreq,        \* number of requests completed so far
    last,        \* the latest completed request: arguments, result, calls
                 \* issued, collaborator outcomes met, and whether the id it
                 \* names had a record when it began
    deletedIds,  \* history: ids deleted with no later insert of that id
    procs        \* in-flight requests of the interleaved specification

vars == <<db, schema, kv, now, genCount, nreq, last, deletedIds, procs>>

-----------------------------------------------------------------------------
(* Bounds of the model. *)

MaxReq == 3        \* requests per behaviour
Dimensions == 2    \* stands for the 384 dimensions of fallbackEmbedding
ModelDimensions == 3  \* stands for the width of the vectors the model returns

-----------------------------------------------------------------------------
(* Text helpers. *)

Whitespace == {" "}
WordChars == {"a", "b", "A"}          \* \w of the regular expressions
CleanKeep == WordChars \cup Whitespace \cup {".", "-"}

CharCode(c) ==
    CASE c = " " -> 32
      [] c = "!" -> 33
      [] c = "-" -> 45
      [] c = "." -> 46
      [] c = "A" -> 65
      [] c = "a" -> 97
      [] c = "b" -> 98

ToLowerCase(s) == [i \in 1..Len(s) |-> IF s[i] = "A" THEN "a" ELSE s[i]]

RECURSIVE TrimStart(_)
TrimStart(s) ==
    IF s # <<>> /\ Head(s) \in Whitespace THEN TrimStart(Tail(s)) ELSE s

RECURSIVE TrimEnd(_)
TrimEnd(s) ==
    IF s # <<>> /\ s[Len(s)] \in Whitespace
    THEN TrimEnd(SubSeq(s, 1, Len(s) - 1))
    ELSE s

Trim(s) == TrimEnd(TrimStart(s))

(* text.replace(/\s+/g, ' '): every run of whitespace becomes one blank. *)
RECURSIVE CollapseWhitespace(_)
CollapseWhitespace(s) ==
    IF s = <<>> THEN <<>>
    ELSE IF Head(s) \in Whitespace
         THEN <<" ">> \o CollapseWhitespace(TrimStart(s))
         ELSE <<Head(s)>> \o CollapseWhitespace(Tail(s))

(* .replace(/[^\w\s.-]/g, '') *)
StripSpecial(s) == SelectSeq(s, LAMBDA c : c \in CleanKeep)

MaxCleanLength == 1500

Substring(s, n) == SubSeq(s, 1, IF Len(s) < n THEN Len(s) ELSE n)

CleanText(text) ==
    Substring(Trim(StripSpecial(CollapseWhitespace(text))), MaxCleanLength)

(* TextEncoder.encode on the characters used here: one byte per character. *)
Encode(s) == [i \in 1..Len(s) |-> CharCode(s[i])]

(* SHA-256 as an ideal digest: equal digests exactly for equal inputs. *)
Sha256Hex(bytes) == <<"sha256", bytes>>

HashContentIgnoringNothing(content) == Sha256Hex(Encode(content))

HashContent(content) == Sha256Hex(Encode(Trim(ToLowerCase(content))))

-----------------------------------------------------------------------------
(* Embeddings.  A vector is [v |-> integers, unit |-> BOOLEAN]: `v` gives  *)
(* the direction and `unit` says the vector was L2-normalised.  The        *)
(* fallback's v[i] is 233280 times the value before normalisation.         *)

(* hash = hash & hash keeps the low 32 bits.  TLC's own integers are 32   *)
(* bits wide, so every value it can compute here is already in range; the  *)
(* texts of this model are far too short for the hash to wrap.             *)
ToInt32(n) == n

Abs(n) == IF n < 0 THEN -n ELSE n

RECURSIVE SimpleHashFrom(_, _)
SimpleHashFrom(hash, s) ==
    IF s = <<>> THEN hash
    ELSE SimpleHashFrom(ToInt32(ToInt32(hash * 32) - hash + CharCode(Head(s))),
                        Tail(s))

SimpleHash(str) == Abs(SimpleHashFrom(0, str))

LcgMul == 9301
LcgAdd == 49297
LcgMod == 233280

(* (seed * 9301 + 49297) % 233280, with the product taken in two parts so *)
(* that no intermediate value leaves TLC's integers.                       *)
LcgValue(seed) ==
    ((((seed % LcgMod) * (LcgMul \div 100)) % LcgMod) * 100
        + (seed % LcgMod) * (LcgMul % 100) + LcgAdd) % LcgMod

FallbackEmbedding(text) ==
    [v |-> [i \in 1..Dimensions |->
               2 * LcgValue(SimpleHash(text) + (i - 1)) - LcgMod],
     unit |-> TRUE]

(* What this.ai.run can do: raise, answer without a first data element,    *)
(* or answer with a vector.                                                *)
(* A vector of the model's width with the given first two components; all  *)
(* the model's vectors here have norm 5, so every cosine is exact.         *)
ModelVector(a, b) ==
    [i \in 1..ModelDimensions |-> IF i = 1 THEN a ELSE IF i = 2 THEN b ELSE 0]

ModelVectors == {ModelVector(3, 4), ModelVector(5, 0), ModelVector(-4, 3)}

AiOutcomes ==
    {[kind |-> "raise"], [kind |-> "empty"]}
        \cup {[kind |-> "data", vec |-> v] : v \in ModelVectors}

GenerateEmbeddingFailing(text, ai) ==
    IF ai.kind = "data" THEN [ok |-> TRUE, vec |-> [v |-> ai.vec, unit |-> FALSE]]
    ELSE [ok |-> FALSE, vec |-> [v |-> <<>>, unit |-> FALSE]]

(* ok = FALSE would mean that generateEmbedding threw. *)
GenerateEmbedding(text, ai) ==
    CASE ai.kind = "data"  -> [ok |-> TRUE, vec |-> [v |-> ai.vec, unit |-> FALSE]]
      [] ai.kind = "empty" -> [ok |-> TRUE, vec |-> FallbackEmbedding(CleanText(text))]
      [] ai.kind = "raise" -> [ok |-> TRUE, vec |-> FallbackEmbedding(text)]

-----------------------------------------------------------------------------
(* JSON text of a value, and its parse. *)

JsonStringify(value) == <<"json", value>>
JsonParse(text) == text[2]

NoId == <<>>
GenId(n) == <<"mem", n>>
DefaultSession == <<"default">>

Has(args, f) == f \in DOMAIN args

(* !args.f for a string argument: absent or empty *)
MissingTextOf(args, f) == ~Has(args, f) \/ args[f] = <<>>

(* args.f || dflt, for arguments whose falsy value is the empty text *)
OrElse(args, f, dflt) ==
    IF Has(args, f) /\ args[f] # <<>> THEN args[f] ELSE dflt

-----------------------------------------------------------------------------
(* The durable store: table `memories` as a set of rows. *)

SelectNothing(d, hash) == {}

SelectByHash(d, hash) == {r \in d : r.content_hash = hash}

SelectById(d, id) == {r \in d : r.id = id}

(* .first(): one of the selected rows, or nothing *)
First(rows) == IF rows = {} THEN {} ELSE {CHOOSE r \in rows : TRUE}

InsertKeepingOld(d, row) == d \cup {row}

InsertUniqueHash(d, row) ==
    {r \in d : r.id # row.id /\ r.content_hash # row.content_hash} \cup {row}

(* INSERT OR REPLACE: the row with the same primary key goes away *)
InsertOrReplace(d, row) == {r \in d : r.id # row.id} \cup {row}

DeleteNothing(d, id) == d

DeleteById(d, id) == {r \in d : r.id # id}

UpdateTags(d, id, tagsJson, t) ==
    {IF r.id = id THEN [r EXCEPT !.tags = tagsJson, !.updated_at = t] ELSE r
        : r \in d}

(* The three statements of ensureSchema, then the calls of the handler. *)
SchemaCalls == <<"db", "db", "db">>

-----------------------------------------------------------------------------
(* The cache: a set of entries, at most one per key. *)

RecentTtl == 3600

RecentKey(id) == <<"recent_memory", id>>

KvPut(k, key, value, ttl) ==
    {e \in k : e.key # key}
        \cup {[key |-> key, value |-> value, expirationTtl |-> ttl]}

KvDeleteNothing(k, key) == k

KvDelete(k, key) == {e \in k : e.key # key}

CacheRecentMemorySkipping(k, memoryId, memory, cacheOk) == k

(* cacheRecentMemory: a failing put is caught and logged *)
CacheRecentMemory(k, memoryId, memory, cacheOk) ==
    IF cacheOk
    THEN KvPut(k, RecentKey(memoryId), JsonStringify(memory), RecentTtl)
    ELSE k

-----------------------------------------------------------------------------
(* Results.  A thrown Error is a result of status "failed" whose `error`   *)
(* names the kind of message.                                              *)

Returned(action, status, id, existing) ==
    [action |-> action, status |-> status, error |-> "none",
     memory_id |-> id, existing_id |-> existing]

Thrown(action, kind, id) ==
    [action |-> action, status |-> "failed", error |-> kind,
     memory_id |-> id, existing_id |-> NoId]

-----------------------------------------------------------------------------
(* storeMemory.  st is [db, kv, gen]; the value is the state afterwards,   *)
(* the result and the collaborator calls issued, in order.                 *)

StoreRow(args, memoryId, t, vec) ==
    [id |-> memoryId, content |-> args.content, timestamp |-> t,
     session_id |-> OrElse(args, "session_id", DefaultSession),
     tags |-> JsonStringify(IF Has(args, "tags") THEN args.tags ELSE <<>>),
     context |-> JsonStringify(IF Has(args, "context") THEN args.context ELSE {}),
     embedding |-> JsonStringify(vec),
     content_hash |-> HashContent(args.content), updated_at |-> t]

(* The projection handed to cacheRecentMemory. *)
RecentProjection(args, memoryId, t) ==
    [id |-> memoryId, content |-> args.content, timestamp |-> t,
     session_id |-> OrElse(args, "session_id", DefaultSession),
     tags |-> IF Has(args, "tags") THEN args.tags ELSE <<>>]

OnDuplicateRefreshing(st, existing, t) ==
    [db |-> {IF r = existing THEN [r EXCEPT !.updated_at = t + 1] ELSE r
                : r \in st.db},
     kv |-> st.kv]

(* if (existing) return {...}: nothing is written *)
OnDuplicate(st, existing, t) == [db |-> st.db, kv |-> st.kv]

StoreWith(st, args, t, cacheOk, memoryId, gen, existing, emb) ==
    IF existing # {}
    THEN [db |-> OnDuplicate(st, CHOOSE r \in existing : TRUE, t).db,
          kv |-> OnDuplicate(st, CHOOSE r \in existing : TRUE, t).kv,
          gen |-> gen,
          res |-> Returned("store", "duplicate_detected", NoId,
                           (CHOOSE r \in existing : TRUE).id),
          io |-> <<"db">>]
    ELSE IF ~emb.ok
    THEN [db |-> st.db, kv |-> st.kv, gen |-> gen,
          res |-> Thrown("store", "model_failure", NoId),
          io |-> <<"db", "ai">>]
    ELSE [db |-> InsertOrReplace(st.db, StoreRow(args, memoryId, t, emb.vec)),
          kv |-> CacheRecentMemory(st.kv, memoryId,
                     RecentProjection(args, memoryId, t), cacheOk),
          gen |-> gen,
          res |-> Returned("store", "stored", memoryId, NoId),
          io |-> <<"db", "ai", "db", "kv">>]

StoreMemory(st, args, t, ai, cacheOk) ==
    StoreWith(st, args, t, cacheOk,
              IF MissingTextOf(args, "memory_id")
              THEN GenId(st.gen + 1) ELSE args.memory_id,
              IF MissingTextOf(args, "memory_id") THEN st.gen + 1 ELSE st.gen,
              First(SelectByHash(st.db, HashContent(args.content))),
              GenerateEmbedding(args.content, ai))

-----------------------------------------------------------------------------
(* The other handlers, as functions of the state [db, kv, gen]. *)

FormatMemory(row) ==
    [id |-> row.id, content |-> row.content, timestamp |-> row.timestamp,
     session_id |-> row.session_id, tags |-> JsonParse(row.tags),
     context |-> JsonParse(row.context), updated_at |-> row.updated_at]

Retrieved(st, memoryId, memory) ==
    IF memory = {}
    THEN [db |-> st.db, kv |-> st.kv, gen |-> st.gen,
          res |-> Thrown("retrieve", "not_found", memoryId),
          memory |-> {}, io |-> <<"db">>]
    ELSE [db |-> st.db, kv |-> st.kv, gen |-> st.gen,
          res |-> Returned("retrieve", "ok", memoryId, NoId),
          memory |-> {FormatMemory(CHOOSE r \in memory : TRUE)},
          io |-> <<"db">>]

RetrieveMemory(st, memoryId) ==
    Retrieved(st, memoryId, First(SelectById(st.db, memoryId)))

Deleted(st, memoryId, cacheOk, changes, after) ==
    IF changes = 0
    THEN [db |-> after, kv |-> st.kv, gen |-> st.gen,
          res |-> Thrown("delete", "not_found", memoryId), io |-> <<"db">>]
    ELSE IF ~cacheOk
    THEN [db |-> after, kv |-> st.kv, gen |-> st.gen,
          res |-> Thrown("delete", "cache_failure", memoryId),
          io |-> <<"db", "kv">>]
    ELSE [db |-> after, kv |-> KvDelete(st.kv, RecentKey(memoryId)),
          gen |-> st.gen,
          res |-> Returned("delete", "deleted", memoryId, NoId),
          io |-> <<"db", "kv">>]

DeleteMemory(st, memoryId, cacheOk) ==
    Deleted(st, memoryId, cacheOk, Cardinality(SelectById(st.db, memoryId)),
            DeleteById(st.db, memoryId))

DedupeKeepingAll(tags) == tags

(* [...new Set(tags)]: first occurrences, in order *)
RECURSIVE Dedupe(_)
Dedupe(tags) ==
    IF tags = <<>> THEN <<>>
    ELSE LET init == Dedupe(SubSeq(tags, 1, Len(tags) - 1))
             t    == tags[Len(tags)]
         IN  IF \E i \in 1..Len(init) : init[i] = t THEN init
             ELSE Append(init, t)

TagUpdate(st, memoryId, tags, t, newTags) ==
    [db |-> UpdateTags(st.db, memoryId, JsonStringify(newTags), t),
     kv |-> st.kv, gen |-> st.gen,
     res |-> [action |-> "tag_memories", status |-> "updated",
              error |-> "none", memory_id |-> memoryId,
              existing_id |-> NoId, tags_added |-> tags,
              all_tags |-> newTags],
     io |-> <<"db", "db">>]

TagFound(st, memoryId, tags, t, memory) ==
    IF memory = {}
    THEN [db |-> st.db, kv |-> st.kv, gen |-> st.gen,
          res |-> Thrown("tag_memories", "not_found", memoryId),
          io |-> <<"db">>]
    ELSE TagUpdate(st, memoryId, tags, t,
                   Dedupe((CHOOSE m \in memory : TRUE).tags \o tags))

TagMemories(st, memoryId, tags, t) ==
    TagFound(st, memoryId, tags, t, RetrieveMemory(st, memoryId).memory)

(* The argument object bulkImport hands to storeMemory for one entry. *)
EntryArgs(memoryData, sessionId) ==
    [f \in (DOMAIN memoryData \cap {"content", "tags", "context"})
              \cup {"session_id"}
        |-> IF f = "session_id" THEN sessionId ELSE memoryData[f]]

(* storeMemory on an entry while the database is failing: the id has been  *)
(* generated (line 141) when the duplicate lookup throws.                  *)
StoreFailing(st) ==
    [db |-> st.db, kv |-> st.kv, gen |-> st.gen + 1,
     res |-> Thrown("store", "db_failure", NoId), io |-> <<"db">>]

(* One turn of the loop: the try/catch around storeMemory. *)
BulkCollect(st, out) ==
    [db |-> out.db, kv |-> out.kv, gen |-> out.gen, fail |-> st.fail,
     results |-> Append(st.results,
                    IF out.res.status = "failed"
                    THEN [success |-> FALSE, memory_id |-> NoId,
                          status |-> "failed", error |-> out.res.error]
                    ELSE [success |-> TRUE, memory_id |-> out.res.memory_id,
                          status |-> out.res.status, error |-> "none"]),
     io |-> st.io \o out.io]

RECURSIVE BulkLoopAborting(_, _, _, _, _, _)
BulkLoopAborting(st, memories, sessionId, t, ai, cacheOk) ==
    IF memories = <<>> \/ \E i \in 1..Len(st.results) : ~st.results[i].success
    THEN st
    ELSE BulkLoopAborting(
             BulkCollect(st, IF (Len(st.results) + 1) \in st.fail
                             THEN StoreFailing(st)
                             ELSE StoreMemory(st, EntryArgs(Head(memories), sessionId),
                                              t, ai, cacheOk)),
             Tail(memories), sessionId, t, ai, cacheOk)

RECURSIVE BulkLoop(_, _, _, _, _, _)
BulkLoop(st, memories, sessionId, t, ai, cacheOk) ==
    IF memories = <<>> THEN st
    ELSE BulkLoop(BulkCollect(st, IF (Len(st.results) + 1) \in st.fail
                                  THEN StoreFailing(st)
                                  ELSE StoreMemory(st, EntryArgs(Head(memories), sessionId),
                                                   t, ai, cacheOk)),
                  Tail(memories), sessionId, t, ai, cacheOk)

Successful(results) ==
    Cardinality({i \in 1..Len(results) : results[i].success})

BulkSummary(sessionId, done) ==
    [db |-> done.db, kv |-> done.kv, gen |-> done.gen,
     res |-> [action |-> "bulk_import", status |-> "ok", error |-> "none",
              memory_id |-> NoId, existing_id |-> NoId,
              session_id |-> sessionId,
              total_processed |-> Len(done.results),
              successful |-> Successful(done.results),
              failed |-> Len(done.results) - Successful(done.results),
              results |-> done.results],
     io |-> done.io]

BulkSession(args, t) == OrElse(args, "session_id", <<"bulk_import_", t>>)

BulkImport(st, args, t, ai, cacheOk) ==
    BulkSummary(BulkSession(args, t),
                BulkLoop([db |-> st.db, kv |-> st.kv, gen |-> st.gen,
                          fail |-> st.fail, results |-> <<>>, io |-> <<>>],
                         args.memories, BulkSession(args, t), t, ai, cacheOk))

-----------------------------------------------------------------------------
(* cosineSimilarity.  A similarity is the fraction dot / mag with mag > 0. *)

RECURSIVE DotFrom(_, _, _)
DotFrom(a, b, i) ==
    IF i > Len(a) THEN 0 ELSE a[i] * b[i] + DotFrom(a, b, i + 1)

(* Math.sqrt, exact on the squares the model's vectors give *)
Sqrt(n) == CHOOSE r \in 0..n : r * r <= n /\ n < (r + 1) * (r + 1)

ZeroSimilarity == [dot |-> 0, mag |-> 1]

Magnitude(a, b) == Sqrt(DotFrom(a, a, 1)) * Sqrt(DotFrom(b, b, 1))

CosineSimilarity(a, b) ==
    IF Len(a) # Len(b) THEN ZeroSimilarity
    ELSE IF Magnitude(a, b) = 0 THEN ZeroSimilarity
    ELSE [dot |-> DotFrom(a, b, 1), mag |-> Magnitude(a, b)]

(* similarity >= threshold, the threshold in hundredths *)
AtLeast(sim, threshold) == sim.dot * 100 >= threshold * sim.mag

(* b.similarity - a.similarity < 0 *)
Higher(a, b) == a.dot * b.mag > b.dot * a.mag

(* Math.round(similarity * 100), in hundredths *)
RoundScore(sim) == (200 * sim.dot + sim.mag) \div (2 * sim.mag)

-----------------------------------------------------------------------------
(* .all() with ORDER BY timestamp: rows of equal timestamp come out in the *)
(* order `tie` gives their ids.                                            *)

Position(tie, id) ==
    IF \E i \in 1..Len(tie) : tie[i] = id
    THEN CHOOSE i \in 1..Len(tie) : tie[i] = id ELSE 0

Precedes(q, r, tie, desc) ==
    \/ IF desc THEN q.timestamp > r.timestamp ELSE q.timestamp < r.timestamp
    \/ q.timestamp = r.timestamp /\ Position(tie, q.id) < Position(tie, r.id)

OrderByTimestamp(rows, tie, desc) ==
    [i \in 1..Cardinality(rows) |->
        CHOOSE r \in rows :
            Cardinality({q \in rows : Precedes(q, r, tie, desc)}) = i - 1]

NullValue == <<"null">>

(* WHERE embedding IS NOT NULL [AND session_id = ?] *)
WithEmbedding(d, args) ==
    {r \in d : /\ r.embedding # NullValue
               /\ MissingTextOf(args, "session_id") \/ r.session_id = args.session_id}

(* Array.prototype.slice(0, limit) *)
Slice(seq, limit) ==
    SubSeq(seq, 1, IF limit < 0
                   THEN (IF Len(seq) + limit > 0 THEN Len(seq) + limit ELSE 0)
                   ELSE (IF limit < Len(seq) THEN limit ELSE Len(seq)))

-----------------------------------------------------------------------------
(* semanticSearch *)

DefaultThreshold == 70
DefaultLimit == 10

(* args.similarity_threshold || 0.7 *)
Threshold(args) ==
    IF Has(args, "similarity_threshold") /\ args.similarity_threshold # 0
    THEN args.similarity_threshold ELSE DefaultThreshold

(* args.limit || dflt *)
LimitOr(args, dflt) ==
    IF Has(args, "limit") /\ args.limit # 0 THEN args.limit ELSE dflt

WithSimilarity(rows, queryEmbedding) ==
    [i \in 1..Len(rows) |->
        [memory |-> rows[i],
         similarity |-> CosineSimilarity(queryEmbedding.v,
                                         JsonParse(rows[i].embedding).v)]]

(* Array.prototype.sort((a, b) => b.similarity - a.similarity): stable *)
(* The place of `item` among `sorted`: after every element that is not     *)
(* less similar than it.                                                    *)
InsertBySimilarity(sorted, item) ==
    LET before == Cardinality({i \in 1..Len(sorted) :
                                  ~Higher(item.similarity, sorted[i].similarity)})
    IN  SubSeq(sorted, 1, before) \o <<item>> \o SubSeq(sorted, before + 1, Len(sorted))

RECURSIVE SortBySimilarity(_)
SortBySimilarity(items) ==
    IF items = <<>> THEN <<>>
    ELSE InsertBySimilarity(SortBySimilarity(SubSeq(items, 1, Len(items) - 1)),
                            items[Len(items)])

Rank(rows, queryEmbedding, threshold, limit) ==
    LET Accepted(item) == AtLeast(item.similarity, threshold)
    IN  Slice(SortBySimilarity(SelectSeq(WithSimilarity(rows, queryEmbedding),
                                         Accepted)),
              limit)

SemanticFound(st, args, threshold, found) ==
    [db |-> st.db, kv |-> st.kv, gen |-> st.gen,
     res |-> [action |-> "semantic_search", status |-> "ok", error |-> "none",
              memory_id |-> NoId, existing_id |-> NoId,
              similarity_threshold |-> threshold,
              total_found |-> Len(found),
              memories |-> [i \in 1..Len(found) |->
                              [memory |-> FormatMemory(found[i].memory),
                               similarity_score |-> RoundScore(found[i].similarity)]]],
     io |-> <<"ai", "db">>]

SemanticSearch(st, args, ai) ==
    SemanticFound(st, args, Threshold(args),
                  Rank(OrderByTimestamp(WithEmbedding(st.db, args), st.tie, TRUE),
                       GenerateEmbedding(args.query, ai).vec,
                       Threshold(args), LimitOr(args, DefaultLimit)))

-----------------------------------------------------------------------------
(* getRelatedMemories *)

RelatedThreshold == 30
RelatedLimit == 5

ExcludeSource(memories, memoryId, limit) ==
    LET Other(mem) == mem.memory.id # memoryId
    IN  Slice(SelectSeq(memories, Other), limit)

RelatedFound(st, memoryId, related) ==
    [db |-> st.db, kv |-> st.kv, gen |-> st.gen,
     res |-> [action |-> "get_related", status |-> "ok", error |-> "none",
              memory_id |-> NoId, existing_id |-> NoId,
              source_memory_id |-> memoryId,
              related_memories |-> related,
              total_related |-> Len(related)],
     io |-> <<"db", "ai", "db">>]

RelatedTo(st, memoryId, limit, ai, source) ==
    IF source = {}
    THEN [db |-> st.db, kv |-> st.kv, gen |-> st.gen,
          res |-> Thrown("get_related", "not_found", memoryId), io |-> <<"db">>]
    ELSE IF (CHOOSE m \in source : TRUE).content = <<>>
    THEN [db |-> st.db, kv |-> st.kv, gen |-> st.gen,
          res |-> Thrown("get_related", "no_content", memoryId), io |-> <<"db">>]
    ELSE RelatedFound(st, memoryId,
             ExcludeSource(
                 SemanticSearch(st, [action |-> "semantic_search",
                                     query |-> (CHOOSE m \in source : TRUE).content,
                                     limit |-> limit + 1,
                                     similarity_threshold |-> RelatedThreshold],
                                ai).res.memories,
                 memoryId, limit))

GetRelatedMemories(st, memoryId, limit, ai) ==
    RelatedTo(st, memoryId, limit, ai, RetrieveMemory(st, memoryId).memory)

-----------------------------------------------------------------------------
(* exportSession.  A text is a sequence of strings: characters, numbers    *)
(* written out, and the fixed pieces of the layout.                        *)

RECURSIVE Join(_, _)
Join(parts, sep) ==
    IF parts = <<>> THEN <<>>
    ELSE IF Len(parts) = 1 THEN parts[1]
    ELSE parts[1] \o sep \o Join(Tail(parts), sep)

TagList(tags) == Join([i \in 1..Len(tags) |-> <<tags[i]>>], <<", ">>)

BlockSeparator == <<"\n---\n\n">>

TextBlock(memory, index) ==
    <<"[", ToString(index), "] ", ToString(memory.timestamp), "\n">>
        \o memory.content
        \o <<"\n", "Tags: ">> \o TagList(memory.tags) \o <<"\n">>

FormatAsText(memories) ==
    Join([i \in 1..Len(memories) |-> TextBlock(memories[i], i)], BlockSeparator)

MarkdownBlock(memory, index) ==
    <<"## Memory ", ToString(index), "\n\n", "**ID:** ", ToString(memory.id),
      "\n", "**Timestamp:** ", ToString(memory.timestamp), "\n", "**Tags:** ">>
        \o TagList(memory.tags) \o <<"\n\n">>
        \o memory.content \o <<"\n\n---\n\n">>

FormatAsMarkdown(memories, t) ==
    <<"# Memory Export\n\nExported: ", ToString(t), "\nTotal Memories: ",
      ToString(Len(memories)), "\n\n">>
        \o Join([i \in 1..Len(memories) |-> MarkdownBlock(memories[i], i)], <<>>)

FormatOf(args) == IF Has(args, "format") THEN args.format ELSE "json"

Exported(st, args, t, exportData) ==
    IF Len(exportData) = 0
    THEN [db |-> st.db, kv |-> st.kv, gen |-> st.gen,
          res |-> Thrown("export_session", "not_found", NoId), io |-> <<"db">>]
    ELSE [db |-> st.db, kv |-> st.kv, gen |-> st.gen,
          res |-> [action |-> "export_session", status |-> "ok", error |-> "none",
                   memory_id |-> NoId, existing_id |-> NoId,
                   session_id |-> args.session_id, format |-> FormatOf(args),
                   memory_count |-> Len(exportData), exported_at |-> t,
                   data |-> CASE FormatOf(args) = "markdown" ->
                                   FormatAsMarkdown(exportData, t)
                              [] FormatOf(args) = "text" -> FormatAsText(exportData)
                              [] OTHER -> JsonStringify(exportData)],
          io |-> <<"db">>]

SessionRowsOfAll(d, sessionId) == d

(* WHERE session_id = ? *)
SessionRows(d, sessionId) == {r \in d : r.session_id = sessionId}

ExportSession(st, args, t) ==
    Exported(st, args, t,
             LET rows == OrderByTimestamp(SessionRows(st.db, args.session_id),
                                          st.tie, FALSE)
             IN  [i \in 1..Len(rows) |-> FormatMemory(rows[i])])

-----------------------------------------------------------------------------
(* performAction: ensureSchema first, then the switch on args.action with  *)
(* its required-argument checks.                                           *)

MissingText(args, f) == MissingTextOf(args, f)              \* !args.f, a string
MissingArray(args, f) == ~Has(args, f)                      \* !args.f, an array

RequiredMissing(args) ==
    CASE args.action = "store"           -> MissingText(args, "content")
      [] args.action = "retrieve"        -> MissingText(args, "memory_id")
      [] args.action = "search"          -> MissingText(args, "query")
      [] args.action = "semantic_search" -> MissingText(args, "query")
      [] args.action = "delete"          -> MissingText(args, "memory_id")
      [] args.action = "bulk_import"     -> MissingArray(args, "memories")
      [] args.action = "export_session"  -> MissingText(args, "session_id")
      [] args.action = "tag_memories"    ->
            MissingText(args, "memory_id") \/ MissingArray(args, "tags")
      [] args.action = "get_related"     -> MissingText(args, "memory_id")
      [] OTHER -> FALSE

Dispatch(st, args, t, ai, cacheOk) ==
    IF RequiredMissing(args)
    THEN [db |-> st.db, kv |-> st.kv, gen |-> st.gen,
          res |-> Thrown(args.action, "invalid_argument", NoId), io |-> <<>>]
    ELSE CASE args.action = "store" -> StoreMemory(st, args, t, ai, cacheOk)
           [] args.action = "retrieve" -> RetrieveMemory(st, args.memory_id)
           [] args.action = "delete" ->
                 DeleteMemory(st, args.memory_id, cacheOk)
           [] args.action = "bulk_import" ->
                 BulkImport(st, args, t, ai, cacheOk)
           [] args.action = "tag_memories" ->
                 TagMemories(st, args.memory_id, args.tags, t)
           [] args.action = "semantic_search" -> SemanticSearch(st, args, ai)
           [] args.action = "export_session" -> ExportSession(st, args, t)
           [] args.action = "get_related" ->
                 GetRelatedMemories(st, args.memory_id,
                                    LimitOr(args, RelatedLimit), ai)

AfterSchema(out) == [out EXCEPT !.io = SchemaCalls \o @]

PerformAction(st, args, t, ai, cacheOk) ==
    AfterSchema(Dispatch(st, args, t, ai, cacheOk))

(* MemoryActionSchema, for the arguments that carry a range: thresholds    *)
(* are in hundredths.                                                      *)
MaxLimit == 100
MinThreshold == 0
MaxThreshold == 100

ValidArgs(args) ==
    /\ Has(args, "limit") => args.limit <= MaxLimit
    /\ Has(args, "similarity_threshold") =>
          /\ args.similarity_threshold >= MinThreshold
          /\ args.similarity_threshold <= MaxThreshold

(* execute: validateArgs throws before performAction is called *)
Execute(st, args, t, ai, cacheOk) ==
    IF ~ValidArgs(args)
    THEN [db |-> st.db, kv |-> st.kv, gen |-> st.gen,
          res |-> Thrown(args.action, "invalid_argument", NoId), io |-> <<>>]
    ELSE PerformAction(st, args, t, ai, cacheOk)

-----------------------------------------------------------------------------
(* Requests a caller can make.  KnownIds are the ids a caller can name:    *)
(* its own <<"x">> and the first generated id once it has been handed out. *)

UserIds == {<<"x">>}
KnownIds == UserIds \cup {GenId(n) : n \in 1..(IF genCount > 0 THEN 1 ELSE 0)}

Options == [session_id |-> <<"s1">>, tags |-> <<"t">>, context |-> {<<"k", "v">>}]

StoreArgs ==
    {[action |-> "store", content |-> <<"a">>],
     [action |-> "store", content |-> <<"A", " ">>, memory_id |-> <<"x">>,
      session_id |-> Options.session_id, tags |-> Options.tags,
      context |-> Options.context],
     [action |-> "store", content |-> <<"b">>, memory_id |-> <<"x">>],
     [action |-> "store", content |-> <<"b", "a">>, memory_id |-> <<"x">>],
     [action |-> "store", content |-> <<>>, memory_id |-> <<"x">>],
     [action |-> "store", session_id |-> <<"s1">>]}
      \cup {[action |-> "store", content |-> <<"b">>, memory_id |-> i]
              : i \in KnownIds}

FaultyStoreArgs ==
    {[action |-> "store", content |-> <<"a">>],
     [action |-> "store", content |-> <<"A", " ">>, memory_id |-> <<"x">>]}

IdArgs(action) ==
    {[action |-> action, memory_id |-> i] : i \in KnownIds}
      \cup {[action |-> action]}

TagArgs ==
    {[action |-> "tag_memories", memory_id |-> i, tags |-> <<"u">>]
        : i \in KnownIds}
      \cup {[action |-> "tag_memories", memory_id |-> <<"x">>,
             tags |-> <<"t", "u", "t">>],
            [action |-> "tag_memories", memory_id |-> <<"x">>],
            [action |-> "tag_memories", tags |-> <<"t">>]}

Batches ==
    {<<>>,
     <<[content |-> <<"a">>]>>,
     <<[content |-> <<"b">>, tags |-> <<"t">>], [content |-> <<"A", " ">>]>>,
     <<[content |-> <<"a">>], [content |-> <<"A", " ">>]>>,
     <<[content |-> <<"a">>], [content |-> <<>>], [content |-> <<"b">>]>>}

BulkArgs ==
    {[action |-> "bulk_import", memories |-> ms] : ms \in Batches}
      \cup {[action |-> "bulk_import", session_id |-> <<"s1">>,
             memories |-> <<[content |-> <<"b">>]>>],
            [action |-> "bulk_import"]}

OtherActions == {"search", "semantic_search", "export_session", "get_related"}

Healthy == [kind |-> "data", vec |-> ModelVector(3, 4)]

-----------------------------------------------------------------------------
(* The specification in which requests do not overlap: one step is one     *)
(* whole request, within a window shorter than the cache's TTL and with    *)
(* collaborators that answer.                                              *)

Procs == {1, 2}
Idle == [pc |-> "idle"]

NoRequest ==
    [args |-> [action |-> "none"], res |-> Returned("none", "none", NoId, NoId),
     io |-> <<>>, ai |-> "unused", cacheOk |-> TRUE, vec |-> <<>>,
     existed |-> FALSE]

Init ==
    /\ db = {}
    /\ schema = FALSE
    /\ kv = {}
    /\ now = 0
    /\ genCount = 0
    /\ nreq = 0
    /\ last = NoRequest
    /\ deletedIds = {}
    /\ procs = [p \in Procs |-> Idle]

Uses(io, who) == \E i \in 1..Len(io) : io[i] = who

(* Ids a result reports as stored. *)
StoredIds(res) ==
    CASE res.action = "store" /\ res.status = "stored" -> {res.memory_id}
      [] res.action = "bulk_import" /\ res.status = "ok" ->
            {res.results[i].memory_id :
                i \in {j \in 1..Len(res.results) :
                          res.results[j].status = "stored"}}
      [] OTHER -> {}

(* Ids a result reports as deleted. *)
DeletedIds(res) ==
    IF res.action = "delete" /\ res.status = "deleted" THEN {res.memory_id} ELSE {}

(* The state after a request whose handler gave `out`. *)
Complete(args, ai, cacheOk, out) ==
    /\ schema' = (schema \/ Uses(out.io, "db"))
    /\ db' = out.db
    /\ kv' = out.kv
    /\ genCount' = out.gen
    /\ nreq' = nreq + 1
    /\ last' = [args |-> args, res |-> out.res, io |-> out.io,
                ai |-> IF Uses(out.io, "ai") THEN ai.kind ELSE "unused",
                cacheOk |-> IF Uses(out.io, "kv") THEN cacheOk ELSE TRUE,
                vec |-> IF Uses(out.io, "ai") /\ ai.kind = "data"
                        THEN ai.vec ELSE <<>>,
                existed |-> ~MissingTextOf(args, "memory_id")
                              /\ SelectById(db, args.memory_id) # {}]
    /\ deletedIds' = (deletedIds \cup DeletedIds(out.res)) \ StoredIds(out.res)

(* What the durable store does on its own during a request: `fail` is the  *)
(* set of bulk_import entries whose store meets a database error, `tie`    *)
(* the order in which rows of equal timestamp come out of ORDER BY.        *)
Calm == [fail |-> {}, tie |-> <<>>]

Serve(args, ai, cacheOk, env) ==
    /\ nreq < MaxReq
    /\ Complete(args, ai, cacheOk,
                Execute([db |-> db, kv |-> kv, gen |-> genCount,
                         fail |-> env.fail, tie |-> env.tie],
                        args, now, ai, cacheOk))
    /\ UNCHANGED <<now, procs>>

Request(args, ai, cacheOk) == Serve(args, ai, cacheOk, Calm)

Store == \E args \in StoreArgs : Request(args, Healthy, TRUE)

Retrieve == \E args \in IdArgs("retrieve") : Request(args, Healthy, TRUE)

Delete == \E args \in IdArgs("delete") : Request(args, Healthy, TRUE)

Tag == \E args \in TagArgs : Request(args, Healthy, TRUE)

Bulk == \E args \in BulkArgs : Request(args, Healthy, TRUE)

(* A call of one of the other actions without its required argument. *)
Rejected == \E a \in OtherActions : Request([action |-> a], Healthy, TRUE)

(* Time passes: the clock is coarse, at most one tick per request made. *)
Tick ==
    /\ now < nreq
    /\ now' = now + 1
    /\ UNCHANGED <<db, schema, kv, genCount, nreq, last, deletedIds, procs>>

(* A cache entry reaches its expirationTtl. *)
KvExpire ==
    /\ \E e \in kv : kv' = kv \ {e}
    /\ UNCHANGED <<db, schema, now, genCount, nreq, last, deletedIds, procs>>

Next ==
    \/ Store
    \/ Retrieve
    \/ Delete
    \/ Tag
    \/ Bulk
    \/ Rejected
    \/ Tick

Spec == Init /\ [][Next]_vars

-----------------------------------------------------------------------------
(* Requests when the cache and the embedding model can fail and cache      *)
(* entries can expire.                                                     *)

FaultyOutcomes == {[kind |-> "raise"], [kind |-> "empty"], Healthy}

StoreFaulty ==
    \E args \in FaultyStoreArgs, ai \in FaultyOutcomes, cacheOk \in BOOLEAN :
        Request(args, ai, cacheOk)

DeleteFaulty ==
    \E args \in IdArgs("delete"), cacheOk \in BOOLEAN :
        Request(args, Healthy, cacheOk)

FaultyBatches ==
    {<<[content |-> <<"b">>], [content |-> <<"A", " ">>], [content |-> <<"a">>]>>}

(* bulk_import while the database fails on some of the entries *)
BulkFaulty ==
    \E ms \in FaultyBatches, fail \in SUBSET {1, 2} :
        Serve([action |-> "bulk_import", memories |-> ms], Healthy, TRUE,
              [fail |-> fail, tie |-> <<>>])

FaultNext ==
    \/ StoreFaulty
    \/ DeleteFaulty
    \/ BulkFaulty
    \/ Retrieve
    \/ Tick
    \/ KvExpire

FaultSpec == Init /\ [][FaultNext]_vars

-----------------------------------------------------------------------------
(* Requests that store and query records whose embeddings differ: the      *)
(* model answers every text with one of ModelVectors.                      *)

Data(v) == [kind |-> "data", vec |-> v]

QueryStoreArgs ==
    {[action |-> "store", content |-> <<"a">>],
     [action |-> "store", content |-> <<"b">>, memory_id |-> <<"x">>,
      session_id |-> <<"s1">>, tags |-> <<"t", "u">>],
     [action |-> "store", content |-> <<"b", "a">>, session_id |-> <<"s1">>]}

SearchArgs ==
    {[action |-> "semantic_search", query |-> <<"a">>],
     [action |-> "semantic_search", query |-> <<"a">>,
      similarity_threshold |-> 0, limit |-> 2],
     [action |-> "semantic_search", query |-> <<"a">>,
      similarity_threshold |-> 50, limit |-> 1],
     [action |-> "semantic_search", query |-> <<"a">>,
      similarity_threshold |-> 50, limit |-> 0],
     [action |-> "semantic_search", query |-> <<"a">>,
      similarity_threshold |-> 50, session_id |-> <<"s1">>],
     [action |-> "semantic_search", query |-> <<"a">>,
      similarity_threshold |-> 110]}

RelatedArgs ==
    {[action |-> "get_related", memory_id |-> i, limit |-> n]
        : i \in KnownIds, n \in {0, 1}}
      \cup {[action |-> "get_related", memory_id |-> <<"x">>]}

(* The vectors the model gives for the text of a query. *)
QueryVectors == {ModelVector(3, 4), ModelVector(-4, 3)}

ExportArgs ==
    {[action |-> "export_session", session_id |-> sid, format |-> "text"]
        : sid \in {DefaultSession, <<"s1">>}}
      \cup {[action |-> "export_session", session_id |-> <<"s1">>]}

TimestampOf(d, id) == (CHOOSE r \in d : r.id = id).timestamp

(* The orders in which the database can list rows of equal timestamp: the *)
(* listings of all ids, newest first, in every order of the equal ones.    *)
Ties(d) ==
    {tie \in [1..Cardinality(d) -> {r.id : r \in d}] :
        \A i, j \in 1..Cardinality(d) :
            i < j => /\ tie[i] # tie[j]
                     /\ TimestampOf(d, tie[i]) >= TimestampOf(d, tie[j])}

(* Each action asks for nreq < MaxReq before it draws its inputs. *)
QueryStore ==
    /\ nreq < MaxReq
    /\ \E args \in QueryStoreArgs, v \in ModelVectors : Request(args, Data(v), TRUE)

Search ==
    /\ nreq < MaxReq
    /\ \E args \in SearchArgs, v \in QueryVectors, tie \in Ties(db) :
          Serve(args, Data(v), TRUE, [fail |-> {}, tie |-> tie])

Related ==
    /\ nreq < MaxReq
    /\ \E args \in RelatedArgs, v \in QueryVectors, tie \in Ties(db) :
          Serve(args, Data(v), TRUE, [fail |-> {}, tie |-> tie])

Export ==
    /\ nreq < MaxReq
    /\ \E args \in ExportArgs, tie \in Ties(db) :
          Serve(args, Healthy, TRUE, [fail |-> {}, tie |-> tie])

QueryNext ==
    \/ QueryStore
    \/ Search
    \/ Related
    \/ Export
    \/ Tick

QuerySpec == Init /\ [][QueryNext]_vars

-----------------------------------------------------------------------------
(* Overlapping store requests: one step per await of performAction and     *)
(* storeMemory.  Each process makes one request.                           *)

ConcStoreArgs ==
    {[action |-> "store", content |-> <<"a">>],
     [action |-> "store", content |-> <<"A", " ">>, memory_id |-> <<"x">>],
     [action |-> "store", content |-> <<"b">>, memory_id |-> <<"x">>]}

Begun == {p \in Procs : procs[p].pc # "idle"}

(* await this.ensureSchema() *)
CBegin(p, args) ==
    /\ procs[p].pc = "idle"
    /\ schema' = TRUE
    /\ procs' = [procs EXCEPT ![p] = [pc |-> "schema", args |-> args]]
    /\ UNCHANGED <<db, kv, now, genCount, nreq, last, deletedIds>>

(* memoryId, sessionId, timestamp; await this.hashContent(args.content) *)
CPrepare(p) ==
    /\ procs[p].pc = "schema"
    /\ genCount' = IF MissingTextOf(procs[p].args, "memory_id")
                   THEN genCount + 1 ELSE genCount
    /\ procs' = [procs EXCEPT ![p] =
                    [pc |-> "hashed", args |-> procs[p].args,
                     memoryId |-> IF MissingTextOf(procs[p].args, "memory_id")
                                  THEN GenId(genCount + 1)
                                  ELSE procs[p].args.memory_id,
                     timestamp |-> now,
                     contentHash |-> HashContent(procs[p].args.content)]]
    /\ UNCHANGED <<db, schema, kv, now, nreq, last, deletedIds>>

(* the duplicate check: SELECT id ... WHERE content_hash = ?, .first() *)
CCheck(p) ==
    /\ procs[p].pc = "hashed"
    /\ \/ /\ SelectByHash(db, procs[p].contentHash) = {}
          /\ procs' = [procs EXCEPT ![p].pc = "checked"]
       \/ \E existing \in SelectByHash(db, procs[p].contentHash) :
             procs' = [procs EXCEPT ![p] =
                          [pc |-> "done", args |-> procs[p].args,
                           memoryId |-> procs[p].memoryId,
                           res |-> Returned("store", "duplicate_detected",
                                            NoId, existing.id)]]
    /\ UNCHANGED <<db, schema, kv, now, genCount, nreq, last, deletedIds>>

(* await this.generateEmbedding(args.content) *)
CEmbed(p, ai) ==
    /\ procs[p].pc = "checked"
    /\ procs' = [procs EXCEPT ![p] =
                    [pc |-> "embedded", args |-> procs[p].args,
                     memoryId |-> procs[p].memoryId,
                     timestamp |-> procs[p].timestamp,
                     embedding |-> GenerateEmbedding(procs[p].args.content, ai).vec]]
    /\ UNCHANGED <<db, schema, kv, now, genCount, nreq, last, deletedIds>>

(* INSERT OR REPLACE INTO memories *)
CInsert(p) ==
    /\ procs[p].pc = "embedded"
    /\ db' = InsertOrReplace(db, StoreRow(procs[p].args, procs[p].memoryId,
                                          procs[p].timestamp, procs[p].embedding))
    /\ procs' = [procs EXCEPT ![p].pc = "inserted"]
    /\ UNCHANGED <<schema, kv, now, genCount, nreq, last, deletedIds>>

(* await this.cacheRecentMemory(...); return *)
CCache(p, cacheOk) ==
    /\ procs[p].pc = "inserted"
    /\ kv' = CacheRecentMemory(kv, procs[p].memoryId,
                 RecentProjection(procs[p].args, procs[p].memoryId,
                                  procs[p].timestamp),
                 cacheOk)
    /\ procs' = [procs EXCEPT ![p] =
                    [pc |-> "done", args |-> procs[p].args,
                     memoryId |-> procs[p].memoryId,
                     res |-> Returned("store", "stored", procs[p].memoryId, NoId)]]
    /\ UNCHANGED <<db, schema, now, genCount, nreq, last, deletedIds>>

(* Time passes: at most one tick per request begun. *)
CTick ==
    /\ now < Cardinality(Begun)
    /\ now' = now + 1
    /\ UNCHANGED <<db, schema, kv, genCount, nreq, last, deletedIds, procs>>

ConcNext ==
    \/ \E p \in Procs, args \in ConcStoreArgs : CBegin(p, args)
    \/ \E p \in Procs : CPrepare(p)
    \/ \E p \in Procs : CCheck(p)
    \/ \E p \in Procs, ai \in AiOutcomes : CEmbed(p, ai)
    \/ \E p \in Procs : CInsert(p)
    \/ \E p \in Procs, cacheOk \in BOOLEAN : CCache(p, cacheOk)
    \/ CTick

ConcSpec == Init /\ [][ConcNext]_vars

-----------------------------------------------------------------------------
(* Properties of store, delete and the dispatcher.                         *)

(* The normalized form of a content: lower-cased, then trimmed. *)
Normalize(content) == Trim(ToLowerCase(content))

SameContent(d, content) == {r \in d : Normalize(r.content) = Normalize(content)}

(* A step that completes a store request carrying its content. *)
StoreStep ==
    /\ nreq' = nreq + 1
    /\ last'.args.action = "store"
    /\ ~RequiredMissing(last'.args)

LastIs(action) == last.args.action = action /\ ~RequiredMissing(last.args)

(* C1: a non-overlapping store of content whose normalized form equals     *)
(* that of a live record reports duplicate_detected with the id of that    *)
(* record, which is the id its own store returned, and exactly one record  *)
(* holds that content afterwards.                                          *)
C1_EquivalentContentIsDuplicate ==
    [][/\ (StoreStep /\ SameContent(db, last'.args.content) # {})
            => /\ last'.res.status = "duplicate_detected"
               /\ \E r \in SameContent(db, last'.args.content) :
                     last'.res.existing_id = r.id
               /\ Cardinality(SameContent(db', last'.args.content)) = 1
       /\ (StoreStep /\ last'.res.status = "stored")
            => \E r \in db' : /\ r.id = last'.res.memory_id
                              /\ r.content = last'.args.content]_vars

C1_Witness ==
    /\ LastIs("store")
    /\ last.res.status = "duplicate_detected"
    /\ Has(last.args, "memory_id") /\ Has(last.args, "session_id")
    /\ \E r \in db : /\ r.id = last.res.existing_id
                     /\ r.id # last.args.memory_id
                     /\ r.content # last.args.content
                     /\ r.session_id # last.args.session_id

(* C2: a store that reports duplicate_detected changes neither the durable *)
(* records nor the cache entries, and creates no id.                       *)
C2_DuplicateMutatesNothing ==
    [][(StoreStep /\ last'.res.status = "duplicate_detected")
          => /\ db' = db
             /\ kv' = kv
             /\ {r.id : r \in db'} = {r.id : r \in db}
             /\ last'.res.memory_id = NoId]_vars

C2_Witness ==
    /\ LastIs("store")
    /\ last.res.status = "duplicate_detected"
    /\ db # {} /\ kv # {}
    /\ \E r \in db : r.updated_at < now

(* C3: in every state reached by non-overlapping requests, no two live     *)
(* records have the same content_hash.                                     *)
C3_ContentHashUnique ==
    \A r1, r2 \in db : r1.content_hash = r2.content_hash => r1 = r2

C3_Witness ==
    /\ Cardinality(db) >= 2
    /\ nreq = MaxReq
    /\ last.res.status = "duplicate_detected"

(* C4: when two overlapping store requests of equivalent content under     *)
(* different ids both return stored, both records are live and share one   *)
(* content_hash.                                                           *)
C4_RaceKeepsBothRecords ==
    \A p, q \in Procs :
        (/\ p # q
         /\ procs[p].pc = "done" /\ procs[q].pc = "done"
         /\ procs[p].res.status = "stored" /\ procs[q].res.status = "stored"
         /\ HashContent(procs[p].args.content) = HashContent(procs[q].args.content)
         /\ procs[p].memoryId # procs[q].memoryId)
          => \E r1, r2 \in db : /\ r1.id = procs[p].memoryId
                                /\ r2.id = procs[q].memoryId
                                /\ r1.content_hash = r2.content_hash

C4_Witness ==
    /\ \A p \in Procs : procs[p].pc = "done" /\ procs[p].res.status = "stored"
    /\ \E r1, r2 \in db : r1.id # r2.id /\ r1.content_hash = r2.content_hash

(* C5: the timestamp of a record never changes while the record lives.     *)
C5_TimestampImmutable ==
    [][\A r \in db : \A r2 \in db' : r2.id = r.id => r2.timestamp = r.timestamp]_vars

(* C6: a store of non-duplicate content under an existing memory_id        *)
(* replaces that record in place: one record with the id, as many records  *)
(* as before, every field from the new request, and the previous content's *)
(* hash gone; content whose hash no record holds is never reported as a    *)
(* duplicate.                                                              *)
C6_RestoreReplacesInPlace ==
    [][/\ (StoreStep /\ last'.existed /\ last'.res.status = "stored")
            => /\ Cardinality(SelectById(db', last'.args.memory_id)) = 1
               /\ Cardinality(db') = Cardinality(db)
               /\ \A r \in SelectById(db', last'.args.memory_id) :
                     /\ r.content = last'.args.content
                     /\ r.tags = JsonStringify(IF Has(last'.args, "tags")
                                               THEN last'.args.tags ELSE <<>>)
                     /\ r.context = JsonStringify(IF Has(last'.args, "context")
                                                  THEN last'.args.context ELSE {})
                     /\ r.session_id = OrElse(last'.args, "session_id", DefaultSession)
                     /\ r.embedding = JsonStringify([v |-> Healthy.vec, unit |-> FALSE])
                     /\ r.content_hash = Sha256Hex(Encode(Normalize(r.content)))
               /\ \A old \in SelectById(db, last'.args.memory_id) :
                     \A r \in db' : r.content_hash # old.content_hash
       /\ (StoreStep /\ SameContent(db, last'.args.content) = {})
            => last'.res.status = "stored"]_vars

C6_Witness ==
    /\ LastIs("store")
    /\ last.existed
    /\ last.res.status = "stored"
    /\ Cardinality(db) >= 2

(* C7: retrieve of an id that was deleted and not stored since fails       *)
(* not_found, and delete of an id with no record fails not_found.          *)
C7_DeletedIsNotFound ==
    /\ \A id \in deletedIds : SelectById(db, id) = {}
    /\ (LastIs("retrieve") /\ last.args.memory_id \in deletedIds)
          => last.res.error = "not_found"
    /\ (LastIs("delete") /\ ~last.existed) => last.res.error = "not_found"

C7_Witness ==
    /\ LastIs("retrieve")
    /\ last.args.memory_id \in deletedIds
    /\ last.res.error = "not_found"
    /\ db # {}

(* C8: a failing cache put during store, or a failing cache delete during  *)
(* delete, still gives the normal result and the durable effect.           *)
C8_CacheFailureAbsorbed ==
    /\ (LastIs("store") /\ Uses(last.io, "kv") /\ ~last.cacheOk)
          => /\ last.res.status = "stored"
             /\ SelectById(db, last.res.memory_id) # {}
    /\ (LastIs("delete") /\ Uses(last.io, "kv") /\ ~last.cacheOk)
          => /\ last.res.status = "deleted"
             /\ SelectById(db, last.args.memory_id) = {}

(* C9: when the model raises or gives an empty result, store still returns *)
(* stored and the record persisted carries a fallback embedding.           *)
C9_ModelFailureFallsBack ==
    (LastIs("store") /\ last.ai \in {"raise", "empty"})
       => /\ last.res.status = "stored"
          /\ \E r \in db :
                /\ r.id = last.res.memory_id
                /\ \E text \in {r.content, CleanText(r.content)} :
                      r.embedding = JsonStringify(FallbackEmbedding(text))
                /\ Len(JsonParse(r.embedding).v) = Dimensions

C9_Witness ==
    /\ LastIs("store")
    /\ last.ai = "raise"
    /\ last.res.status = "stored"
    /\ CleanText(last.args.content) # last.args.content
    /\ \E r \in db : /\ r.id = last.res.memory_id
                     /\ r.embedding = JsonStringify(FallbackEmbedding(r.content))

(* C10: a request without its required argument fails with an invalid-     *)
(* argument error before any call to the store, the cache or the model.    *)
C10_MissingArgumentBeforeIO ==
    RequiredMissing(last.args)
       => /\ last.res.error = "invalid_argument"
          /\ last.io = <<>>

-----------------------------------------------------------------------------
(* Properties of tag_memories, bulk_import, the embeddings and the         *)
(* queries.                                                                *)

Range(seq) == {seq[i] : i \in 1..Len(seq)}

NoDuplicates(seq) == \A i, j \in 1..Len(seq) : seq[i] = seq[j] => i = j

TagsOf(d, id) == JsonParse((CHOOSE r \in SelectById(d, id) : TRUE).tags)

TagStep ==
    /\ nreq' = nreq + 1
    /\ last'.args.action = "tag_memories"
    /\ last'.res.status = "updated"

(* C15: after tag_memories(id, T) the tags of the record are the previous  *)
(* tags united with T, without duplicates, so tagging with tags the record *)
(* already has leaves its tag set unchanged; nothing else of the record    *)
(* but updated_at changes.                                                 *)
C15_TagUnionIdempotent ==
    [][TagStep =>
         /\ Range(TagsOf(db', last'.args.memory_id))
              = Range(TagsOf(db, last'.args.memory_id)) \cup Range(last'.args.tags)
         /\ NoDuplicates(TagsOf(db', last'.args.memory_id))
         /\ last'.res.all_tags = TagsOf(db', last'.args.memory_id)
         /\ Range(last'.args.tags) \subseteq Range(TagsOf(db, last'.args.memory_id))
              => Range(TagsOf(db', last'.args.memory_id))
                    = Range(TagsOf(db, last'.args.memory_id))
         /\ {[r EXCEPT !.tags = <<>>, !.updated_at = 0] : r \in db'}
              = {[r EXCEPT !.tags = <<>>, !.updated_at = 0] : r \in db}]_vars

C15_Witness ==
    /\ LastIs("tag_memories")
    /\ last.res.status = "updated"
    /\ last.args.tags = <<"t", "u", "t">>
    /\ TagsOf(db, last.args.memory_id) = <<"u", "t">>

BulkStep(n) ==
    /\ LastIs("bulk_import")
    /\ Len(last.args.memories) = n

CallsOf(io, who) == Cardinality({i \in 1..Len(io) : io[i] = who})

(* C16: bulk_import of n entries returns n per-entry results in the order  *)
(* of the entries, with successful + failed = total_processed = n, and     *)
(* goes to the database for every entry, also after an entry has failed;   *)
(* every entry reported as a success has its content in a record.          *)
C16_BulkNeverAborts ==
    \A n \in 0..3 :
        BulkStep(n) =>
            /\ last.res.status = "ok"
            /\ Len(last.res.results) = n
            /\ last.res.total_processed = n
            /\ last.res.successful + last.res.failed = n
            /\ last.res.failed
                 = Cardinality({i \in 1..n : ~last.res.results[i].success})
            /\ CallsOf(last.io, "db") >= Len(SchemaCalls) + n
            /\ \A i \in 1..n :
                  last.res.results[i].success =>
                      SameContent(db, last.args.memories[i].content) # {}

C16_Witness ==
    /\ BulkStep(3)
    /\ ~last.res.results[1].success
    /\ last.res.results[2].status = "stored"
    /\ last.res.results[3].status = "duplicate_detected"
    /\ last.res.failed = 1

(* C17: in a bulk_import of three entries whose second entry has empty     *)
(* content, two entries succeed, one fails, and no record is persisted for *)
(* the second entry.                                                       *)
C17_EmptyEntryRejected ==
    (/\ BulkStep(3)
     /\ last.args.memories[2].content = <<>>
     /\ last.args.memories[1].content # <<>>
     /\ last.args.memories[3].content # <<>>)
       => /\ last.res.successful = 2
          /\ last.res.failed = 1
          /\ ~last.res.results[2].success
          /\ \A r \in db : r.content # <<>>

-----------------------------------------------------------------------------
(* generateEmbedding on its own: each process holds the latest call it     *)
(* made, with the text, what the model did and the vector returned.        *)

EmbedTexts ==
    {<<"a">>, <<"A", " ">>, <<" ", "a">>, <<"b">>, <<"a", " ", " ", "b">>, <<>>}

EmbedCall(p, text, ai) ==
    /\ procs[p].pc \in {"idle", "embedded"}
    /\ procs' = [procs EXCEPT ![p] =
                    [pc |-> "embedded", text |-> text, ai |-> ai.kind,
                     vec |-> GenerateEmbedding(text, ai).vec]]
    /\ UNCHANGED <<db, schema, kv, now, genCount, nreq, last, deletedIds>>

EmbedNext == \E p \in Procs, text \in EmbedTexts, ai \in AiOutcomes : EmbedCall(p, text, ai)

EmbedSpec == Init /\ [][EmbedNext]_vars

Embedded(p) == procs[p].pc = "embedded"

(* C18: two generateEmbedding calls on the same text while the model is    *)
(* unavailable, by raising or by an empty result in any combination,       *)
(* return identical vectors.                                               *)
C18_FallbackDeterministic ==
    \A p, q \in Procs :
        (/\ Embedded(p) /\ Embedded(q)
         /\ procs[p].text = procs[q].text
         /\ procs[p].ai \in {"raise", "empty"}
         /\ procs[q].ai \in {"raise", "empty"})
           => procs[p].vec = procs[q].vec

(* C19: every vector generateEmbedding returns, from the model or from the *)
(* fallback, has the same length.                                          *)
C19_OneDimensionality ==
    \A p, q \in Procs :
        (Embedded(p) /\ Embedded(q)) => Len(procs[p].vec.v) = Len(procs[q].vec.v)

-----------------------------------------------------------------------------
(* Properties of the queries.  The reference for a search is the set of    *)
(* records in scope whose similarity to the query embedding reaches the    *)
(* threshold the caller gave.                                              *)

SimilarityOf(r) == CosineSimilarity(last.vec, JsonParse(r.embedding).v)

Qualifying(args, threshold) ==
    {r \in WithEmbedding(db, args) : AtLeast(SimilarityOf(r), threshold)}

RowOf(mem) == CHOOSE r \in db : r.id = mem.memory.id

Least(a, b) == IF a < b THEN a ELSE b

GivenOr(args, f, dflt) == IF Has(args, f) THEN args[f] ELSE dflt

Searched == LastIs("semantic_search") /\ last.res.status = "ok"

(* C11: semantic_search with an explicit threshold t, 0 included, returns  *)
(* every record in scope whose similarity is at least t, up to the limit.  *)
C11_ExplicitThresholdApplied ==
    (/\ Searched
     /\ Has(last.args, "similarity_threshold")
     /\ Has(last.args, "limit") => last.args.limit >= 1)
       => last.res.total_found
               = Least(GivenOr(last.args, "limit", DefaultLimit),
                       Cardinality(Qualifying(last.args,
                                              last.args.similarity_threshold)))

(* C12: semantic_search with threshold 1.1 succeeds with an empty result.  *)
C12_ThresholdAboveOneIsEmpty ==
    (/\ LastIs("semantic_search")
     /\ Has(last.args, "similarity_threshold")
     /\ last.args.similarity_threshold > MaxThreshold)
       => /\ last.res.status = "ok"
          /\ last.res.error = "none"
          /\ last.res.total_found = 0

(* C13: the result of semantic_search is the reference ranking for the     *)
(* threshold and limit given (0.7 and 10 when omitted): the first `limit`  *)
(* of the qualifying records of the session, by similarity descending and, *)
(* among equal similarities, by timestamp descending.                      *)
C13_ReferenceRanking ==
    (LastIs("semantic_search") /\ ValidArgs(last.args)) =>
        /\ last.res.status = "ok"
        /\ Len(last.res.memories)
             = Least(GivenOr(last.args, "limit", DefaultLimit),
                     Cardinality(Qualifying(last.args,
                         GivenOr(last.args, "similarity_threshold",
                                 DefaultThreshold))))
        /\ \A i \in 1..Len(last.res.memories) :
              /\ RowOf(last.res.memories[i])
                   \in Qualifying(last.args,
                          GivenOr(last.args, "similarity_threshold",
                                  DefaultThreshold))
              /\ last.res.memories[i].memory = FormatMemory(RowOf(last.res.memories[i]))
              /\ last.res.memories[i].similarity_score
                   = RoundScore(SimilarityOf(RowOf(last.res.memories[i])))
        /\ \A i, j \in 1..Len(last.res.memories) :
              i < j =>
                 /\ last.res.memories[i].memory.id # last.res.memories[j].memory.id
                 /\ ~Higher(SimilarityOf(RowOf(last.res.memories[j])),
                            SimilarityOf(RowOf(last.res.memories[i])))
                 /\ Higher(SimilarityOf(RowOf(last.res.memories[i])),
                           SimilarityOf(RowOf(last.res.memories[j])))
                      \/ last.res.memories[i].memory.timestamp
                            >= last.res.memories[j].memory.timestamp

(* Records other than the source that are related to it. *)
OthersRelated ==
    {r \in db : /\ r.id # last.args.memory_id
                /\ AtLeast(SimilarityOf(r), RelatedThreshold)}

(* C14: get_related(id, limit) fails not_found when id has no record;      *)
(* otherwise it never returns the source, returns at most limit records,   *)
(* all of them related, and exactly limit when that many are related.      *)
C14_RelatedWithinLimit ==
    LastIs("get_related") =>
        /\ ~last.existed => last.res.error = "not_found"
        /\ last.existed =>
              /\ last.res.status = "ok"
              /\ \A i \in 1..Len(last.res.related_memories) :
                    /\ last.res.related_memories[i].memory.id # last.args.memory_id
                    /\ RowOf(last.res.related_memories[i]) \in OthersRelated
              /\ Has(last.args, "limit") =>
                    /\ Len(last.res.related_memories) <= last.args.limit
                    /\ Cardinality(OthersRelated) >= last.args.limit
                          => Len(last.res.related_memories) = last.args.limit

(* The blocks of a flat export: the text split at the block separators. *)
RECURSIVE SplitBlocks(_, _)
SplitBlocks(text, block) ==
    IF text = <<>> THEN <<block>>
    ELSE IF <<Head(text)>> = BlockSeparator
    THEN <<block>> \o SplitBlocks(Tail(text), <<>>)
    ELSE SplitBlocks(Tail(text), Append(block, Head(text)))

(* The content line of a block: between the header line and "Tags: ". *)
BlockContent(block) ==
    SubSeq(block, 6, (CHOOSE k \in 1..Len(block) : block[k] = "Tags: ") - 2)

OfSession(d, sessionId) == {r \in d : r.session_id = sessionId}

ExportStep ==
    /\ nreq' = nreq + 1
    /\ last'.args.action = "export_session"
    /\ ~RequiredMissing(last'.args)

(* C20: export_session fails not_found for a session without records and  *)
(* succeeds otherwise with memory_count equal to the number of records of  *)
(* the session; the text format has one block per record of the session,  *)
(* numbered in order, and none for another session; no record or cache     *)
(* entry changes.                                                          *)
C20_ExportCountsSession ==
    [][ExportStep =>
         /\ db' = db /\ kv' = kv
         /\ OfSession(db, last'.args.session_id) = {}
               => last'.res.error = "not_found"
         /\ OfSession(db, last'.args.session_id) # {}
               => /\ last'.res.status = "ok"
                  /\ last'.res.memory_count
                       = Cardinality(OfSession(db, last'.args.session_id))
                  /\ last'.res.format = "text"
                       => /\ Len(SplitBlocks(last'.res.data, <<>>))
                               = last'.res.memory_count
                          /\ {BlockContent(SplitBlocks(last'.res.data, <<>>)[i])
                                 : i \in 1..last'.res.memory_count}
                               = {r.content : r \in OfSession(db, last'.args.session_id)}
                          /\ \A i \in 1..last'.res.memory_count :
                                SplitBlocks(last'.res.data, <<>>)[i][2] = ToString(i)]_vars

C20_Witness ==
    /\ LastIs("export_session")
    /\ last.res.status = "ok"
    /\ last.res.format = "text"
    /\ last.res.memory_count >= 1
    /\ \E r \in db : r.session_id # last.args.session_id

-----------------------------------------------------------------------------
(* Properties of the cache of recent records.                              *)

(* The cache entries held for the record of an id. *)
CachedFor(k, id) == {e \in k : e.key = RecentKey(id)}

(* C21: after a delete that reported status deleted, and with no store of  *)
(* that id since, the cache holds no entry recent_memory:<id>.             *)
C21_DeleteEvictsCache ==
    /\ \A id \in deletedIds : CachedFor(kv, id) = {}
    /\ (LastIs("delete") /\ last.res.status = "deleted")
          => CachedFor(kv, last.args.memory_id) = {}

C21_Witness ==
    /\ LastIs("delete")
    /\ last.res.status = "deleted"
    /\ last.existed
    /\ last.args.memory_id \in deletedIds
    /\ CachedFor(kv, last.args.memory_id) = {}
    /\ kv # {}

(* The projection (id, content, timestamp, session_id, tags) of a row. *)
ProjectionOf(row) ==
    [id |-> row.id, content |-> row.content, timestamp |-> row.timestamp,
     session_id |-> row.session_id, tags |-> JsonParse(row.tags)]

(* C24: after a store that returns status stored while the cache answers,  *)
(* the cache holds under recent_memory:<id> the projection of the record   *)
(* just persisted, also when the store overwrote an existing id.           *)
C24_StoreCachesProjection ==
    (LastIs("store") /\ last.res.status = "stored" /\ last.cacheOk)
        => /\ SelectById(db, last.res.memory_id) # {}
           /\ \A r \in SelectById(db, last.res.memory_id) :
                 {JsonParse(e.value) : e \in CachedFor(kv, r.id)}
                     = {ProjectionOf(r)}

C24_Witness ==
    /\ LastIs("store")
    /\ last.res.status = "stored"
    /\ last.existed
    /\ \E e \in CachedFor(kv, last.res.memory_id) :
          /\ JsonParse(e.value).content = last.args.content
          /\ JsonParse(e.value).timestamp > 0
          /\ JsonParse(e.value).tags = <<>>
    /\ \E r \in db : r.id # last.res.memory_id

(* C25: whenever the cache holds recent_memory:<id> and a record of that   *)
(* id exists, the cached projection's content, timestamp, session_id and   *)
(* tags equal the record's.                                                *)
C25_ProjectionAgreesWithRecord ==
    \A r \in db : \A e \in CachedFor(kv, r.id) :
        JsonParse(e.value) = ProjectionOf(r)

-----------------------------------------------------------------------------
(* C28: every per-entry result of bulk_import marked success carries a     *)
(* memory_id, and a record of that id exists right after the import (so    *)
(* retrieve of it succeeds), also for an entry whose content duplicates an *)
(* earlier entry of the batch or a stored record.                          *)
C28_BulkSuccessIsRetrievable ==
    (LastIs("bulk_import") /\ last.res.status = "ok")
        => \A i \in 1..Len(last.res.results) :
              last.res.results[i].success
                  => /\ last.res.results[i].memory_id # NoId
                     /\ RetrieveMemory([db |-> db, kv |-> kv, gen |-> genCount],
                                       last.res.results[i].memory_id).res.status
                            = "ok"

-----------------------------------------------------------------------------
(* The read-through cache, IntelligentCache.get(kv, key, fallback, ttl).   *)
(* A JSON value is its type and its text.  `fallback` is the sequence of   *)
(* outcomes of the successive invocations of the loader within one call.   *)

JsonFalse == [type |-> "boolean", text |-> "false"]
JsonZero == [type |-> "number", text |-> "0"]
JsonEmptyString == [type |-> "string", text |-> ""]
JsonNull == [type |-> "null", text |-> "null"]
JsonOne == [type |-> "number", text |-> "1"]
JsonObject == [type |-> "object", text |-> "{}"]

JsonValues == {JsonFalse, JsonZero, JsonEmptyString, JsonNull, JsonOne, JsonObject}

(* The condition of `if (cached)`. *)
Truthy(v) == v \notin {JsonFalse, JsonZero, JsonEmptyString, JsonNull}

DefaultTtl == 3600

TtlOf(args) == IF Has(args, "ttl") THEN args.ttl ELSE DefaultTtl

(* kv.get(key, 'json'): the parsed values held under key, none when absent *)
Held(k, key) == {JsonParse(e.value) : e \in {x \in k : x.key = key}}

GetReturned(value) == [status |-> "ok", error |-> "none", value |-> value]
GetThrown(kind) == [status |-> "failed", error |-> kind, value |-> JsonNull]

(* catch (error) { return await fallback(); } after `calls` invocations *)
OnCacheError(k, fallback, calls, io) ==
    [kv |-> k, calls |-> calls + 1, io |-> Append(io, "fallback"),
     res |-> IF fallback[calls + 1].ok
             THEN GetReturned(fallback[calls + 1].value)
             ELSE GetThrown("loader_failure")]

(* fresh = await fallback(); await kv.put(...); return fresh *)
OnMiss(k, key, fallback, ttl, writeOk) ==
    IF ~fallback[1].ok
    THEN OnCacheError(k, fallback, 1, <<"kv.get", "fallback">>)
    ELSE IF ~writeOk
    THEN OnCacheError(k, fallback, 1, <<"kv.get", "fallback", "kv.put">>)
    ELSE [kv |-> KvPut(k, key, JsonStringify(fallback[1].value), ttl),
          calls |-> 1, io |-> <<"kv.get", "fallback", "kv.put">>,
          res |-> GetReturned(fallback[1].value)]

IntelligentCacheGet(k, key, fallback, ttl, readOk, writeOk) ==
    IF ~readOk
    THEN OnCacheError(k, fallback, 0, <<"kv.get">>)
    ELSE IF \E v \in Held(k, key) : Truthy(v)
    THEN [kv |-> k, calls |-> 0, io |-> <<"kv.get">>,
          res |-> GetReturned(CHOOSE v \in Held(k, key) : TRUE)]
    ELSE OnMiss(k, key, fallback, ttl, writeOk)

(* Calls of get, with a loader that answers or raises at each invocation   *)
(* and a cache whose read and write can fail.                              *)
GetArgs ==
    {[action |-> "get", key |-> "k1"],
     [action |-> "get", key |-> "k2", ttl |-> 60]}

Raise == [ok |-> FALSE, value |-> JsonNull]
Answer(v) == [ok |-> TRUE, value |-> v]

Fallbacks ==
    {<<first, again>> : first \in {Raise} \cup {Answer(v) : v \in JsonValues},
                        again \in {Raise, Answer(JsonOne)}}

GetDone(args, fallback, readOk, writeOk, out) ==
    /\ kv' = out.kv
    /\ nreq' = nreq + 1
    /\ last' = [args |-> args, res |-> out.res, io |-> out.io,
                calls |-> out.calls, fallback |-> fallback,
                readOk |-> readOk,
                writeOk |-> IF Uses(out.io, "kv.put") THEN writeOk ELSE TRUE,
                held |-> IF readOk THEN Held(kv, args.key) ELSE {}]
    /\ UNCHANGED <<db, schema, now, genCount, deletedIds, procs>>

ReadThrough ==
    /\ nreq < MaxReq
    /\ \E args \in GetArgs, fallback \in Fallbacks, readOk, writeOk \in BOOLEAN :
          GetDone(args, fallback, readOk, writeOk,
                  IntelligentCacheGet(kv, args.key, fallback, TtlOf(args),
                                      readOk, writeOk))

CacheNext ==
    \/ ReadThrough
    \/ KvExpire

CacheSpec == Init /\ [][CacheNext]_vars

GetStep == last.args.action = "get"

(* C22: get returns the value held unexpired under key, whatever JSON      *)
(* value it is, without invoking the loader; only when none is held does   *)
(* it invoke the loader, store the result under key with ttl and return it.*)
C22_ReadThroughHit ==
    [][(nreq' = nreq + 1 /\ last'.args.action = "get" /\ last'.readOk)
          => /\ Held(kv, last'.args.key) # {}
                => /\ last'.calls = 0
                   /\ last'.res.status = "ok"
                   /\ last'.res.value \in Held(kv, last'.args.key)
                   /\ kv' = kv
             /\ (/\ Held(kv, last'.args.key) = {}
                 /\ last'.writeOk
                 /\ last'.fallback[1].ok)
                => /\ last'.calls = 1
                   /\ last'.res = GetReturned(last'.fallback[1].value)
                   /\ \E e \in kv' :
                         /\ e.key = last'.args.key
                         /\ JsonParse(e.value) = last'.fallback[1].value
                         /\ e.expirationTtl = TtlOf(last'.args)]_vars

(* C23: when the cache read fails, or the write-back fails, and the loader *)
(* has produced a result, get returns a result of the loader.              *)
C23_CacheFailureNeverBlocks ==
    (/\ GetStep
     /\ ~last.readOk \/ ~last.writeOk
     /\ last.fallback[1].ok)
        => /\ last.res.status = "ok"
           /\ \E n \in 1..last.calls :
                 last.fallback[n] = Answer(last.res.value)

(* C29: one call of get invokes the loader at most once, whether the cache *)
(* hits, misses, fails to read, fails to write back, or the loader fails.  *)
C29_LoaderAtMostOnce ==
    GetStep => last.calls <= 1

-----------------------------------------------------------------------------
(* Overlapping store, delete and tag_memories requests on one id: one step *)
(* per await.  A process that has finished a request can make another;     *)
(* nreq counts the requests begun.  The collaborators answer.              *)

RaceArgs ==
    {[action |-> "store", content |-> <<"a">>, memory_id |-> <<"x">>,
      tags |-> <<"s">>],
     [action |-> "delete", memory_id |-> <<"x">>],
     [action |-> "tag_memories", memory_id |-> <<"x">>, tags |-> <<"t">>],
     [action |-> "tag_memories", memory_id |-> <<"x">>, tags |-> <<"u">>]}

InFlight == {p \in Procs : procs[p].pc \notin {"idle", "done"}}

(* await this.ensureSchema(), then the handler of the action; `with` keeps *)
(* the requests in flight when this one began.                             *)
RBegin(p, args) ==
    /\ procs[p].pc \in {"idle", "done"}
    /\ nreq < MaxReq
    /\ nreq' = nreq + 1
    /\ schema' = TRUE
    /\ procs' = [procs EXCEPT ![p] =
                    [pc |-> CASE args.action = "store" -> "schema"
                              [] args.action = "delete" -> "deleting"
                              [] args.action = "tag_memories" -> "tagging",
                     args |-> args, with |-> InFlight]]
    /\ UNCHANGED <<db, kv, now, genCount, last, deletedIds>>

(* deleteMemory: DELETE FROM memories WHERE id = ?, then the changes test *)
DRun(p) ==
    /\ procs[p].pc = "deleting"
    /\ db' = DeleteById(db, procs[p].args.memory_id)
    /\ procs' = [procs EXCEPT ![p] =
                    IF SelectById(db, procs[p].args.memory_id) = {}
                    THEN [pc |-> "done", args |-> procs[p].args,
                          with |-> procs[p].with,
                          res |-> Thrown("delete", "not_found",
                                         procs[p].args.memory_id)]
                    ELSE [pc |-> "evicting", args |-> procs[p].args,
                          with |-> procs[p].with]]
    /\ UNCHANGED <<schema, kv, now, genCount, nreq, last, deletedIds>>

(* await this.kv.delete(`recent_memory:${memoryId}`); return *)
DEvict(p) ==
    /\ procs[p].pc = "evicting"
    /\ kv' = KvDelete(kv, RecentKey(procs[p].args.memory_id))
    /\ procs' = [procs EXCEPT ![p] =
                    [pc |-> "done", args |-> procs[p].args,
                     with |-> procs[p].with,
                     res |-> Returned("delete", "deleted",
                                      procs[p].args.memory_id, NoId)]]
    /\ UNCHANGED <<db, schema, now, genCount, nreq, last, deletedIds>>

(* tagMemories: await this.retrieveMemory(memoryId), then the union *)
TRead(p) ==
    /\ procs[p].pc = "tagging"
    /\ procs' = [procs EXCEPT ![p] =
                    IF SelectById(db, procs[p].args.memory_id) = {}
                    THEN [pc |-> "done", args |-> procs[p].args,
                          with |-> procs[p].with,
                          res |-> Thrown("tag_memories", "not_found",
                                         procs[p].args.memory_id)]
                    ELSE [pc |-> "read", args |-> procs[p].args,
                          with |-> procs[p].with,
                          newTags |->
                              Dedupe(FormatMemory(
                                  CHOOSE r \in SelectById(db, procs[p].args.memory_id)
                                      : TRUE).tags \o procs[p].args.tags)]]
    /\ UNCHANGED <<db, schema, kv, now, genCount, nreq, last, deletedIds>>

(* UPDATE memories SET tags = ?, updated_at = ? WHERE id = ?; return *)
TWrite(p) ==
    /\ procs[p].pc = "read"
    /\ db' = UpdateTags(db, procs[p].args.memory_id,
                        JsonStringify(procs[p].newTags), now)
    /\ procs' = [procs EXCEPT ![p] =
                    [pc |-> "done", args |-> procs[p].args,
                     with |-> procs[p].with,
                     res |-> Returned("tag_memories", "updated",
                                      procs[p].args.memory_id, NoId)]]
    /\ UNCHANGED <<schema, kv, now, genCount, nreq, last, deletedIds>>

(* Time passes: at most one tick per request begun. *)
RTick ==
    /\ now < nreq
    /\ now' = now + 1
    /\ UNCHANGED <<db, schema, kv, genCount, nreq, last, deletedIds, procs>>

RaceNext ==
    \/ \E p \in Procs, args \in RaceArgs : RBegin(p, args)
    \/ \E p \in Procs : CPrepare(p)
    \/ \E p \in Procs : CCheck(p)
    \/ \E p \in Procs : CEmbed(p, Healthy)
    \/ \E p \in Procs : CInsert(p)
    \/ \E p \in Procs : CCache(p, TRUE)
    \/ \E p \in Procs : DRun(p)
    \/ \E p \in Procs : DEvict(p)
    \/ \E p \in Procs : TRead(p)
    \/ \E p \in Procs : TWrite(p)
    \/ RTick

RaceSpec == Init /\ [][RaceNext]_vars

(* C26: once all store(x) and delete(x) requests have completed, the cache *)
(* holds recent_memory:x only if a record of id x exists.                  *)
C26_NoOrphanProjection ==
    InFlight = {}
        => \A id \in UserIds : CachedFor(kv, id) # {} => SelectById(db, id) # {}

(* Two requests overlapped: one began while the other was in flight. *)
Overlapped(p, q) == p \in procs[q].with \/ q \in procs[p].with

Updated(p) ==
    /\ procs[p].pc = "done"
    /\ procs[p].args.action = "tag_memories"
    /\ procs[p].res.status = "updated"

(* C27: once two overlapping tag_memories calls on the same existing id    *)
(* have both returned status updated, the record's tags contain every tag  *)
(* passed to either call.                                                  *)
C27_NoTagLost ==
    \A p, q \in Procs :
        (/\ p # q
         /\ Updated(p)
         /\ Updated(q)
         /\ procs[p].args.memory_id = procs[q].args.memory_id
         /\ Overlapped(p, q))
            => \A r \in SelectById(db, procs[p].args.memory_id) :
                  Range(procs[p].args.tags) \cup Range(procs[q].args.tags)
                      \subseteq Range(JsonParse(r.tags))

-----------------------------------------------------------------------------
(* The engine as the server constructs it (src/src/zeo-mcp-server.ts,      *)
(* initializeTools).  A binding is named by the service behind it.         *)

Bindings == [AI |-> "model", ZEO_KV |-> "cache", ZEO_DB |-> "store"]

(* constructor(db, kv, ai) *)
Constructor(d, k, a) == [db |-> d, kv |-> k, ai |-> a]

(* memoryEngine: new MemoryEngine(env.AI, env.ZEO_KV, env.ZEO_DB) *)
InitializeTools(env) == Constructor(env.AI, env.ZEO_KV, env.ZEO_DB)

(* The service each call of a request lands on. *)
Reached(engine, io) == [i \in 1..Len(io) |-> engine[io[i]]]

(* execute on an engine so wired: this.db.prepare on a binding that is not *)
(* the database is a TypeError in ensureSchema; this.ai.run on a binding   *)
(* that is not the model raises inside generateEmbedding; a put on a       *)
(* binding that is not the cache fails.                                    *)
WiredExecute(engine, st, args, t, ai, cacheOk) ==
    IF ValidArgs(args) /\ engine.db # "store"
    THEN [db |-> st.db, kv |-> st.kv, gen |-> st.gen,
          res |-> Thrown(args.action, "type_error", NoId), io |-> <<"db">>]
    ELSE Execute(st, args, t,
                 IF engine.ai = "model" THEN ai ELSE [kind |-> "raise"],
                 cacheOk /\ engine.kv = "cache")

ServerArgs ==
    StoreArgs \cup IdArgs("retrieve") \cup IdArgs("delete") \cup TagArgs
        \cup BulkArgs

Wired(engine, args, out) ==
    /\ schema' = (schema \/ (Uses(out.io, "db") /\ engine.db = "store"))
    /\ db' = out.db
    /\ kv' = out.kv
    /\ genCount' = out.gen
    /\ nreq' = nreq + 1
    /\ last' = [args |-> args, res |-> out.res, io |-> out.io,
                reached |-> Reached(engine, out.io)]
    /\ UNCHANGED <<now, deletedIds, procs>>

ServerRequest ==
    /\ nreq < MaxReq
    /\ \E args \in ServerArgs :
          Wired(InitializeTools(Bindings), args,
                WiredExecute(InitializeTools(Bindings),
                             [db |-> db, kv |-> kv, gen |-> genCount,
                              fail |-> {}, tie |-> <<>>],
                             args, now, Healthy, TRUE))

ServerNext ==
    \/ ServerRequest
    \/ Tick

ServerSpec == Init /\ [][ServerNext]_vars

(* C30: the server passes the durable store as the engine's db, the cache  *)
(* as its kv and the model as its ai, so that every statement the engine   *)
(* issues on db reaches the durable store, every cache call the cache and  *)
(* every embedding request the model.                                      *)
C30_CollaboratorsInRole ==
    Has(last, "reached")
        => /\ last.res.error # "type_error"
           /\ \A i \in 1..Len(last.io) :
                 last.reached[i] = Constructor("store", "cache", "model")[last.io[i]]

====
